---- MODULE Spec2Model ----
(***************************************************************************)
(* Change tracking of Unraid Config Guardian (src/src/config_diff.py).     *)
(*                                                                         *)
(* A Python dict is a function whose DOMAIN is the set of keys present, a  *)
(* list is a sequence, a str is a string.  An f-string is the sequence of  *)
(* its pieces (fixed text and interpolated values), so a line of a report  *)
(* is a sequence of strings and a report is a sequence of lines.  The fixed *)
(* texts are written in ASCII: " -> " for the arrow, no emoji.             *)
(*                                                                         *)
(* CPython iterates a set of str in an order fixed by the hashes of its    *)
(* elements, and str hashes are randomised per process (PYTHONHASHSEED).   *)
(* The order of every iteration over a set is therefore a choice the model *)
(* draws: h.names orders the container names, h.items the port and volume  *)
(* tokens.  The sets one call iterates are pairwise disjoint, so every     *)
(* combination of iteration orders is induced by some h.                   *)
(***************************************************************************)
EXTENDS Integers, Sequences, FiniteSets, TLC

VARIABLES
    op,                 \* the function the caller invokes
    old,                \* its first argument  (old / old_config)
    new,                \* its second argument (new / new_config)
    pc,                 \* "call" before the function ran, "return" after
    changes,            \* return value of compare_single_container
    container_changes,  \* generate_change_log: local container_changes
    system_changes,     \* generate_change_log: local system_changes
    log_lines,          \* generate_change_log: log_lines, the lines of the report
    files,              \* the output directory: file name -> content, of the files present
    ret,                \* what get_previous_config / create_change_log returned
    raised,             \* the exception that left the call, "" if none
    warned,             \* whether logger.warning was called
    docker,             \* get_containers: what client.containers.list(all=True) yields
    containers_,        \* the list get_containers returned / generate_compose receives
    compose,            \* return value of generate_compose
    run,                \* main / run_backup: the run last made on the output directory
    background_status,  \* web_gui: the global background_status
    tasks,              \* web_gui: the background tasks added and not yet finished
    response            \* web_gui: status code of the last answer of start_backup

vars == <<op, old, new, pc, changes, container_changes, system_changes, log_lines,
          files, ret, raised, warned, docker, containers_, compose, run,
          background_status, tasks, response>>

\* the variables of get_containers, generate_compose and main
guardian_vars == <<docker, containers_, compose, run>>

\* the variables of the dashboard
gui_vars == <<background_status, tasks, response>>

\* the variables of the calls that read the output directory
store_vars == <<files, ret, raised, warned>>

----------------------------------------------------------------------------
(* Bounds of the inputs *)

MaxContainers == 2      \* longest containers list of a snapshot
MaxPorts == 2           \* longest ports list of a container record
MaxVolumes == 1         \* longest volumes list of a container record

----------------------------------------------------------------------------
(* Python primitives *)

\* dict.get(k, default)
Get(d, k, default) == IF k \in DOMAIN d THEN d[k] ELSE default

\* set(list)
Range(s) == {s[i] : i \in DOMAIN s}

\* the empty dict / the empty list
Empty == <<>>

\* all orders in which a set can be iterated
Orderings(S) ==
    {s \in [1..Cardinality(S) -> S] : \A i, j \in 1..Cardinality(S) : i # j => s[i] # s[j]}

\* iteration over the set S under the hash order `order` (a sequence holding
\* every element of S once)
Iter(S, order) == SelectSeq(order, LAMBDA x : x \in S)

\* ', '.join(seq)
join(seq) ==
    IF Len(seq) = 0 THEN <<>>
    ELSE [i \in 1..(2 * Len(seq) - 1) |-> IF i % 2 = 1 THEN seq[(i + 1) \div 2] ELSE ", "]

\* the concatenation of a sequence of sequences (list.extend in a loop)
RECURSIVE Flatten(_)
Flatten(ss) == IF ss = <<>> THEN <<>> ELSE Head(ss) \o Flatten(Tail(ss))

----------------------------------------------------------------------------
(* compare_single_container *)

fields_to_compare_swapped ==
    << <<"status", "Status">>, <<"image", "Image">>, <<"restart_policy", "Restart Policy">> >>

\* the (field, display_name) pairs of compare_single_container, in list order
fields_to_compare ==
    << <<"image", "Image">>, <<"status", "Status">>, <<"restart_policy", "Restart Policy">> >>

old_val_unknown(d, field) == Get(d, field, "unknown")

\* old.get(field, "N/A")
old_val(d, field) == Get(d, field, "N/A")

new_val_none(d, field) == Get(d, field, "None")

new_val(d, field) == Get(d, field, "N/A")

\* the loop over a fields_to_compare list: one line per field whose values differ
RECURSIVE field_changes(_, _, _)
field_changes(fields, o, n) ==
    IF fields = <<>> THEN <<>>
    ELSE LET field == Head(fields)[1]
             display_name == Head(fields)[2]
             line == <<display_name, ": ", old_val(o, field), " -> ", new_val(n, field)>>
         IN  (IF old_val(o, field) # new_val(n, field) THEN <<line>> ELSE <<>>)
             \o field_changes(Tail(fields), o, n)

ports_changes_removed_all(o, n, h) ==
    LET old_ports == Range(Get(o, "ports", Empty))
        new_ports == Range(Get(n, "ports", Empty))
    IN  IF old_ports # new_ports
        THEN (IF old_ports \ new_ports # {}
              THEN << <<"Removed ports: ">> \o join(Iter(old_ports, h.items)) >>
              ELSE <<>>)
             \o (IF new_ports \ old_ports # {}
                 THEN << <<"Added ports: ">> \o join(Iter(new_ports \ old_ports, h.items)) >>
                 ELSE <<>>)
        ELSE <<>>

\* the ports block
ports_changes(o, n, h) ==
    LET old_ports == Range(Get(o, "ports", Empty))
        new_ports == Range(Get(n, "ports", Empty))
    IN  IF old_ports # new_ports
        THEN (IF old_ports \ new_ports # {}
              THEN << <<"Removed ports: ">> \o join(Iter(old_ports \ new_ports, h.items)) >>
              ELSE <<>>)
             \o (IF new_ports \ old_ports # {}
                 THEN << <<"Added ports: ">> \o join(Iter(new_ports \ old_ports, h.items)) >>
                 ELSE <<>>)
        ELSE <<>>

\* the volumes block
volumes_changes(o, n, h) ==
    LET old_volumes == Range(Get(o, "volumes", Empty))
        new_volumes == Range(Get(n, "volumes", Empty))
    IN  IF old_volumes # new_volumes
        THEN (IF old_volumes \ new_volumes # {}
              THEN << <<"Removed volumes: ">> \o join(Iter(old_volumes \ new_volumes, h.items)) >>
              ELSE <<>>)
             \o (IF new_volumes \ old_volumes # {}
                 THEN << <<"Added volumes: ">> \o join(Iter(new_volumes \ old_volumes, h.items)) >>
                 ELSE <<>>)
        ELSE <<>>

env_count_by_content(c) == Get(c, "environment", Empty)

\* len(c.get("environment", {})), of old and of new
env_count(c) == Cardinality(DOMAIN Get(c, "environment", Empty))

\* the environment block; ToString is the f-string's str() of the count
environment_changes(o, n) ==
    LET old_env_count == env_count(o)
        new_env_count == env_count(n)
    IN  IF old_env_count # new_env_count
        THEN << <<"Environment variables: ", ToString(old_env_count), " -> ",
                  ToString(new_env_count)>> >>
        ELSE <<>>

compare_single_container(o, n, h) ==
    field_changes(fields_to_compare, o, n)
    \o ports_changes(o, n, h)
    \o volumes_changes(o, n, h)
    \o environment_changes(o, n)

----------------------------------------------------------------------------
(* compare_containers *)

\* c.get("name", "unknown")
name_of(c) == Get(c, "name", "unknown")

by_name_first_wins(containers) ==
    [name \in {name_of(containers[i]) : i \in DOMAIN containers} |->
        LET first == CHOOSE i \in DOMAIN containers :
                         /\ name_of(containers[i]) = name
                         /\ \A j \in DOMAIN containers : name_of(containers[j]) = name => j >= i
        IN  containers[first]]

\* {c.get("name", "unknown"): c for c in containers}: a later record replaces
\* an earlier one of the same name
by_name(containers) ==
    [name \in {name_of(containers[i]) : i \in DOMAIN containers} |->
        LET last == CHOOSE i \in DOMAIN containers :
                        /\ name_of(containers[i]) = name
                        /\ \A j \in DOMAIN containers : name_of(containers[j]) = name => j <= i
        IN  containers[last]]

added_names_all_new(old_names, new_names) == new_names

\* new_names - old_names
added_names(old_names, new_names) == new_names \ old_names

removed_names_all_old(old_names, new_names) == old_names

\* old_names - new_names
removed_names(old_names, new_names) == old_names \ new_names

\* old_names & new_names
shared_names(old_names, new_names) == old_names \cap new_names

modified_entry_unconditional(name, container_changes_) ==
    << <<"~ ", name, ":">> >>
    \o [i \in DOMAIN container_changes_ |-> <<"    ">> \o container_changes_[i]]

\* what one shared container appends to changes["modified"]
modified_entry(name, container_changes_) ==
    IF container_changes_ # <<>>
    THEN << <<"~ ", name, ":">> >>
         \o [i \in DOMAIN container_changes_ |-> <<"    ">> \o container_changes_[i]]
    ELSE <<>>

compare_containers(old_containers, new_containers, h) ==
    LET old_by_name == by_name(old_containers)
        new_by_name == by_name(new_containers)
        old_names == DOMAIN old_by_name
        new_names == DOMAIN new_by_name
        added == Iter(added_names(old_names, new_names), h.names)
        removed == Iter(removed_names(old_names, new_names), h.names)
        shared == Iter(shared_names(old_names, new_names), h.names)
    IN  [added |->
            [i \in DOMAIN added |->
                <<"+ ", added[i], " (image: ", Get(new_by_name[added[i]], "image", "unknown"), ")">>],
         removed |->
            [i \in DOMAIN removed |->
                <<"- ", removed[i], " (image: ", Get(old_by_name[removed[i]], "image", "unknown"), ")">>],
         modified |->
            Flatten([i \in DOMAIN shared |->
                modified_entry(shared[i],
                    compare_single_container(old_by_name[shared[i]], new_by_name[shared[i]], h))])]

----------------------------------------------------------------------------
(* compare_system_info *)

\* the (field, display_name) pairs of compare_system_info, in list order
system_fields_to_compare_with_timestamp ==
    << <<"unraid_version", "Unraid Version">>, <<"hostname", "Hostname">>,
       <<"kernel_version", "Kernel Version">>, <<"timestamp", "Timestamp">> >>

system_fields_to_compare ==
    << <<"unraid_version", "Unraid Version">>, <<"hostname", "Hostname">>,
       <<"kernel_version", "Kernel Version">> >>

\* the loop over the system fields
RECURSIVE system_field_changes(_, _, _)
system_field_changes(fields, old_system, new_system) ==
    IF fields = <<>> THEN <<>>
    ELSE LET field == Head(fields)[1]
             display_name == Head(fields)[2]
             old_val_ == Get(old_system, field, "N/A")
             new_val_ == Get(new_system, field, "N/A")
         IN  (IF old_val_ # new_val_
              THEN << <<display_name, ": ", old_val_, " -> ", new_val_>> >> ELSE <<>>)
             \o system_field_changes(Tail(fields), old_system, new_system)

compare_system_info(old_system, new_system) ==
    LET old_disks == Len(Get(old_system, "disks", Empty))
        new_disks == Len(Get(new_system, "disks", Empty))
        old_shares == Len(Get(old_system, "shares", Empty))
        new_shares == Len(Get(new_system, "shares", Empty))
    IN  system_field_changes(system_fields_to_compare, old_system, new_system)
        \o (IF old_disks # new_disks
            THEN << <<"Disk count: ", ToString(old_disks), " -> ", ToString(new_disks)>> >>
            ELSE <<>>)
        \o (IF old_shares # new_shares
            THEN << <<"Share count: ", ToString(old_shares), " -> ", ToString(new_shares)>> >>
            ELSE <<>>)

----------------------------------------------------------------------------
(* generate_change_log *)

NoContainerChanges ==
    << <<"**No container changes detected**">>, <<"">>,
       <<"All containers remain unchanged since the last backup.">>, <<"">> >>

NoSystemChanges ==
    << <<"## System Changes">>, <<"">>, <<"**No system changes detected**">>, <<"">> >>

Footer == << <<"---">>, <<"*Generated by Unraid Config Guardian*">>, <<"">> >>

total_changes_without_modified(cc) == Len(cc.added) + Len(cc.removed)

\* len(added) + len(removed) + len(modified), of the lists compare_containers returned
total_changes(cc) == Len(cc.added) + Len(cc.removed) + Len(cc.modified)

\* the summary section, from the container_changes that compare_containers returned
summary_lines(cc) ==
    IF total_changes(cc) = 0
    THEN NoContainerChanges
    ELSE << <<"**", ToString(total_changes(cc)), " container changes detected**">>, <<"">> >>
         \o (IF cc.added # <<>>
             THEN << <<"### New Containers">> >> \o cc.added \o << <<"">> >> ELSE <<>>)
         \o (IF cc.removed # <<>>
             THEN << <<"### Removed Containers">> >> \o cc.removed \o << <<"">> >> ELSE <<>>)
         \o (IF cc.modified # <<>>
             THEN << <<"### Modified Containers">> >> \o cc.modified \o << <<"">> >> ELSE <<>>)

system_lines_with_notice(sc) ==
    << <<"## System Changes">>, <<"">> >>
    \o [i \in DOMAIN sc |-> <<"[system]  ">> \o sc[i]]
    \o << <<"">>, <<"**No system changes detected**">>, <<"">> >>

\* the system section, from the system_changes that compare_system_info returned
system_lines(sc) ==
    IF sc # <<>>
    THEN << <<"## System Changes">>, <<"">> >>
         \o [i \in DOMAIN sc |-> <<"[system]  ">> \o sc[i]]
         \o << <<"">> >>
    ELSE NoSystemChanges

\* timestamp is datetime.now() as formatted, h the iteration orders of the run
generate_change_log(old_config, new_config, timestamp, h) ==
    LET old_timestamp == Get(Get(old_config, "system_info", Empty), "timestamp", "Unknown")
        cc == compare_containers(Get(old_config, "containers", Empty),
                                 Get(new_config, "containers", Empty), h)
        sc == compare_system_info(Get(old_config, "system_info", Empty),
                                  Get(new_config, "system_info", Empty))
    IN  << <<"# Unraid Configuration Changes">>,
           <<"Generated: ", timestamp>>,
           <<"Previous backup: ", old_timestamp>>,
           <<"">>, <<"## Summary">>, <<"">> >>
        \o summary_lines(cc)
        \o system_lines(sc)
        \o Footer

----------------------------------------------------------------------------
(* get_previous_config, create_change_log *)

\* A Python value of statically unknown type (what json.load returns, what
\* create_change_log returns) carries its type in `shape`: "null" (None),
\* "object" (dict), "array" (list), "number", "string", "bool", and "text" for
\* a str held as its lines.
PyNone == [shape |-> "null"]
Obj(d) == [shape |-> "object", value |-> d]
Text(lines) == [shape |-> "text", value |-> lines]

\* bool(x), as `if not old_config` and `if change_log` take it
truthy(x) ==
    CASE x.shape = "null" -> FALSE
      [] x.shape = "object" -> DOMAIN x.value # {}
      [] x.shape = "array" -> x.value # <<>>
      [] x.shape = "number" -> x.value # 0
      [] x.shape = "string" -> x.value # ""
      [] x.shape = "bool" -> x.value
      [] x.shape = "text" -> x.value # <<>>

ConfigFile == "unraid-config.json"
ChangesFile == "changes.log"

\* A file is [state, doc]: "json" with the document json.load returns,
\* "invalid" when json.load raises, "unreadable" when open raises, "text" with
\* its lines for any other file.

get_previous_config_silent(output_dir) ==
    IF ConfigFile \in DOMAIN output_dir /\ output_dir[ConfigFile].state = "json"
    THEN [value |-> output_dir[ConfigFile].doc, warned |-> FALSE]
    ELSE [value |-> PyNone, warned |-> FALSE]

\* get_previous_config(output_dir): the value returned and whether a warning
\* was logged; `except Exception` lets no exception of open or json.load out
get_previous_config(output_dir) ==
    IF ConfigFile \notin DOMAIN output_dir
    THEN [value |-> PyNone, warned |-> FALSE]
    ELSE IF output_dir[ConfigFile].state = "json"
         THEN [value |-> output_dir[ConfigFile].doc, warned |-> FALSE]
         ELSE [value |-> PyNone, warned |-> TRUE]

write_text_to_config(output_dir, name, lines) ==
    (ConfigFile :> [state |-> "text", doc |-> lines]) @@ output_dir

\* Path.write_text
write_text(output_dir, name, lines) == (name :> [state |-> "text", doc |-> lines]) @@ output_dir

container_count_of_config(new_config) == Cardinality(DOMAIN new_config)

\* len(new_config.get("containers", []))
container_count(new_config) == Len(Get(new_config, "containers", Empty))

\* new_config.get("system_info", {}).get("hostname", "unknown")
baseline_hostname(new_config) == Get(Get(new_config, "system_info", Empty), "hostname", "unknown")

\* the f-string first_backup_log
first_backup_log(new_config, timestamp) ==
    << <<"# Unraid Config Guardian - Change Log">>,
       <<"">>,
       <<"## Initial Backup - ", timestamp>>,
       <<"">>,
       <<"**Server:** ", baseline_hostname(new_config)>>,
       <<"**Containers:** ", ToString(container_count(new_config))>>,
       <<"">>,
       <<"This is the first backup for this Unraid server. Future backups will show changes compared to this">>,
       <<"baseline.">>,
       <<"">>,
       <<"### Summary">>,
       <<"- Initial configuration captured">>,
       <<"- ", ToString(container_count(new_config)), " containers documented">>,
       <<"- System information recorded">>,
       <<"">>,
       <<"Future change logs will appear here when configurations are modified.">>,
       <<"">> >>

\* `if not old_config`: the branch of the first backup
is_first_backup(old_config) == ~truthy(old_config)

\* create_change_log(output_dir, new_config): the value returned, the exception
\* raised ("" if none), the directory afterwards and whether a warning was
\* logged.  old_config.get raises AttributeError when old_config is no dict.
create_change_log(output_dir, new_config, timestamp, h) ==
    LET previous == get_previous_config(output_dir)
        old_config == previous.value
    IN  IF is_first_backup(old_config)
        THEN LET first == first_backup_log(new_config, timestamp)
             IN  [ret |-> Text(first), raised |-> "",
                  files |-> write_text(output_dir, ChangesFile, first),
                  warned |-> previous.warned]
        ELSE IF old_config.shape # "object"
        THEN [ret |-> PyNone, raised |-> "AttributeError", files |-> output_dir,
              warned |-> previous.warned]
        ELSE LET change_log == generate_change_log(old_config.value, new_config, timestamp, h)
             IN  [ret |-> Text(change_log), raised |-> "",
                  files |-> write_text(output_dir, ChangesFile, change_log),
                  warned |-> previous.warned]

\* main: the message logged after the files are written
change_summary(change_log) ==
    IF truthy(change_log)
    THEN "Change log generated - see changes.log for details"
    ELSE "First backup - no changes to compare"

----------------------------------------------------------------------------
(* The calls checked: arguments drawn from bounded sets *)

\* all lists over S of length at most n
Lists(S, n) == UNION {[1..k -> S] : k \in 0..n}

\* a key that is absent, or present with a value of V
Opt(k, V) == {Empty} \cup {k :> v : v \in V}

PortTokens == {"80:8080", "443:8443"}
VolumeTokens == {"/mnt/a:/a", "/mnt/b:/b"}
EnvKeys == {"DB_PASSWORD", "TZ"}
EnvValues == {"hunter2", "UTC"}

\* every environment dict over EnvKeys and EnvValues
Envs == UNION {[K -> EnvValues] : K \in SUBSET EnvKeys}

\* container records that vary in the scalar fields
ScalarRecords ==
    {[name |-> "app", ports |-> <<"80:8080">>, volumes |-> <<"/mnt/a:/a">>,
      environment |-> [TZ |-> "UTC"]] @@ i @@ s @@ r :
        i \in Opt("image", {"a:1", "a:2"}),
        s \in Opt("status", {"running", "exited"}),
        r \in Opt("restart_policy", {"always"})}

\* container records that vary in the ports and volumes lists
ListRecords ==
    {[name |-> "app", image |-> "a:1", status |-> "running"] @@ p @@ v :
        p \in Opt("ports", Lists(PortTokens, MaxPorts)),
        v \in Opt("volumes", Lists(VolumeTokens, MaxVolumes))}

\* container records that vary in the environment
EnvRecords ==
    {[name |-> "app", image |-> "a:1", status |-> "running"] @@ e :
        e \in Opt("environment", Envs)}

SingleRecords == ScalarRecords \cup ListRecords \cup EnvRecords

\* the records of the containers lists: two names plus a record without name
\* and image
SmallRecords ==
    {[name |-> "app", image |-> "a:1", status |-> "running"],
     [name |-> "app", image |-> "a:2", status |-> "exited"],
     [name |-> "db", image |-> "a:1", status |-> "running"],
     [name |-> "db", image |-> "a:2", status |-> "running"],
     [status |-> "running"]}

SysOld == [timestamp |-> "2025-01-01T03:00:00", hostname |-> "tower", unraid_version |-> "6.12.4"]
SysNew == [timestamp |-> "2025-01-02T03:00:00", hostname |-> "tower", unraid_version |-> "6.12.4"]

\* previous snapshots: any JSON object with or without the two keys
OldConfigs ==
    {c @@ s : c \in Opt("containers", Lists(SmallRecords, MaxContainers)),
              s \in Opt("system_info", {SysOld})}

\* current snapshots: main builds both keys
NewConfigs ==
    {[system_info |-> SysNew, containers |-> l] : l \in Lists(SmallRecords, MaxContainers)}

\* system_info records that vary in every field compare_system_info reads
RichSys ==
    {[timestamp |-> "2025-01-01T03:00:00", guardian_version |-> "1.0.0"] @@ u @@ hn @@ k @@ d @@ sh :
        u \in Opt("unraid_version", {"6.12.4"}),
        hn \in Opt("hostname", {"tower"}),
        k \in Opt("kernel_version", {"6.1.49"}),
        d \in Opt("disks", {<<"disk1">>}),
        sh \in Opt("shares", {<<"appdata", "media">>})}

FullRecord ==
    [name |-> "web", image |-> "nginx:1", status |-> "running", restart_policy |-> "always",
     ports |-> <<"80:8080", "443:8443">>, volumes |-> <<"/mnt/a:/a">>,
     environment |-> [TZ |-> "UTC", DB_PASSWORD |-> "hunter2"]]

\* the snapshots compared with an identical copy of themselves
SelfConfigs ==
    {c @@ s : c \in Opt("containers", Lists(SmallRecords \cup {FullRecord}, MaxContainers)),
              s \in Opt("system_info", RichSys)}

\* snapshots of one container that vary in its environment
EnvOldConfigs == {[system_info |-> SysOld, containers |-> <<r>>] : r \in EnvRecords}
EnvNewConfigs == {[system_info |-> SysNew, containers |-> <<r>>] : r \in EnvRecords}

\* the values datetime.now() formats to
Clock == {"2025-01-02 03:00:05", "2025-01-02 03:00:06"}

\* the port and volume tokens of a container record
ItemsOf(c) == Range(Get(c, "ports", Empty)) \cup Range(Get(c, "volumes", Empty))

\* the names and the port and volume tokens of a snapshot's containers list
NamesOf(config) == {name_of(c) : c \in Range(Get(config, "containers", Empty))}
ItemsOfConfig(config) == UNION {ItemsOf(c) : c \in Range(Get(config, "containers", Empty))}

\* the iteration orders a run can have over the strings N (names) and I (items)
HashOrders(N, I) == {[names |-> a, items |-> b] : a \in Orderings(N), b \in Orderings(I)}

NoContainerResult == [added |-> <<>>, removed |-> <<>>, modified |-> <<>>]

\* no run made yet
NoRun ==
    [n |-> 0, by |-> "none", outcome |-> "none", config |-> <<>>,
     change_log |-> [shape |-> "null"], recovered |-> FALSE]

\* background_status as the module defines it
Ready ==
    [running |-> FALSE, progress |-> 0, message |-> "Ready",
     last_run |-> "None", last_error |-> "None"]

\* before the call: nothing computed yet
Start ==
    /\ pc = "call"
    /\ changes = <<>>
    /\ container_changes = NoContainerResult
    /\ system_changes = <<>>
    /\ log_lines = <<>>
    /\ ret = PyNone
    /\ raised = ""
    /\ warned = FALSE
    /\ containers_ = <<>>
    /\ compose = Empty
    /\ run = NoRun
    /\ background_status = Ready
    /\ tasks = <<>>
    /\ response = 0

SingleCalls == op = "compare_single_container" /\ old \in SingleRecords /\ new \in SingleRecords

Init ==
    /\ Start
    /\ files = Empty
    /\ docker = <<>>
    /\ \/ SingleCalls
       \/ op = "generate_change_log" /\ old \in OldConfigs /\ new \in NewConfigs
       \/ op = "generate_change_log" /\ old \in SelfConfigs /\ new = old

\* the calls whose arguments vary in the environments
InitEnv ==
    /\ Start
    /\ files = Empty
    /\ docker = <<>>
    /\ \/ SingleCalls
       \/ op = "generate_change_log" /\ old \in EnvOldConfigs /\ new \in EnvNewConfigs

\* a call of compare_single_container(old, new)
CompareSingleContainer ==
    /\ op = "compare_single_container" /\ pc = "call"
    /\ \E h \in HashOrders({}, ItemsOf(old) \cup ItemsOf(new)) :
           changes' = compare_single_container(old, new, h)
    /\ pc' = "return"
    /\ UNCHANGED <<op, old, new, container_changes, system_changes, log_lines>>
    /\ UNCHANGED store_vars
    /\ UNCHANGED guardian_vars
    /\ UNCHANGED gui_vars

\* a call of generate_change_log(old_config, new_config)
GenerateChangeLog ==
    /\ op = "generate_change_log" /\ pc = "call"
    /\ \E timestamp \in Clock :
       \E h \in HashOrders(NamesOf(old) \cup NamesOf(new),
                            ItemsOfConfig(old) \cup ItemsOfConfig(new)) :
           /\ container_changes' = compare_containers(Get(old, "containers", Empty),
                                                      Get(new, "containers", Empty), h)
           /\ system_changes' = compare_system_info(Get(old, "system_info", Empty),
                                                    Get(new, "system_info", Empty))
           /\ log_lines' = generate_change_log(old, new, timestamp, h)
    /\ pc' = "return"
    /\ UNCHANGED <<op, old, new, changes>>
    /\ UNCHANGED store_vars
    /\ UNCHANGED guardian_vars
    /\ UNCHANGED gui_vars

Next == CompareSingleContainer \/ GenerateChangeLog

Spec == Init /\ [][Next]_vars

SpecEnv == InitEnv /\ [][Next]_vars

----------------------------------------------------------------------------
(* Comparisons of host records *)

\* system_info records: every key present or absent
SysRecords ==
    {t @@ g @@ n @@ u @@ k @@ d :
        t \in Opt("timestamp", {"2025-01-01T03:00:00"}),
        g \in Opt("guardian_version", {"1.0.0"}),
        n \in Opt("hostname", {"tower", "nas"}),
        u \in Opt("unraid_version", {"6.12.4", "7.0.0"}),
        k \in Opt("kernel_version", {"6.1.64"}),
        d \in Opt("disks", {<<"disk1">>})}

\* the container lists that go with them: none, unchanged, changed
SysContainerPairs ==
    { <<Empty, Empty>>,
      <<[containers |-> <<FullRecord>>], [containers |-> <<FullRecord>>]>>,
      <<[containers |-> <<[name |-> "app", image |-> "a:1"]>>],
        [containers |-> <<[name |-> "app", image |-> "a:2"], [name |-> "db", image |-> "a:1"]>>]>> }

\* snapshots with or without system_info
SysConfigs(c) == {c} \cup {c @@ [system_info |-> s] : s \in SysRecords}

InitSys ==
    /\ Start
    /\ files = Empty
    /\ docker = <<>>
    /\ op = "generate_change_log"
    /\ \E p \in SysContainerPairs : old \in SysConfigs(p[1]) /\ new \in SysConfigs(p[2])

NextSys == GenerateChangeLog

SpecSys == InitSys /\ [][NextSys]_vars

----------------------------------------------------------------------------
(* The calls that read the output directory *)

\* container lists of the stored and the current snapshot
StoreLists ==
    { <<>>,
      << [name |-> "app", image |-> "a:1", status |-> "running"] >>,
      << [name |-> "app", image |-> "a:2", status |-> "exited"],
         [name |-> "db", image |-> "a:1", status |-> "running"] >> }

\* previous snapshots on disk: any JSON object with or without the two keys,
\* the empty object included
StoreOldConfigs ==
    {c @@ s : c \in Opt("containers", StoreLists), s \in Opt("system_info", {SysOld})}

\* what json.load can return for a file that parses: an object, an array, a
\* number, a string, a boolean or null
JsonDocs ==
    {Obj(c) : c \in StoreOldConfigs}
    \cup {[shape |-> "array", value |-> v] : v \in {<<>>, <<1>>}}
    \cup {[shape |-> "number", value |-> v] : v \in {0, 5}}
    \cup {[shape |-> "string", value |-> v] : v \in {"", "backup"}}
    \cup {[shape |-> "bool", value |-> v] : v \in BOOLEAN}
    \cup {PyNone}

\* unraid-config.json when it exists
ConfigFileStates ==
    {[state |-> "unreadable"], [state |-> "invalid"]}
    \cup {[state |-> "json", doc |-> d] : d \in JsonDocs}

\* the files besides unraid-config.json: a compose file, with or without an
\* earlier changes.log
OtherFiles ==
    LET compose_file == "docker-compose.yml" :> [state |-> "text", doc |-> <<<<"services:">>>>]
    IN  {compose_file, compose_file @@ (ChangesFile :> [state |-> "text", doc |-> <<<<"# earlier log">>>>])}

\* output directories
OutputDirs ==
    OtherFiles \cup {(ConfigFile :> f) @@ d : f \in ConfigFileStates, d \in OtherFiles}

\* current snapshots handed to create_change_log: main builds both keys; the
\* function itself defaults either
StoreNewConfigs ==
    {c @@ s : c \in Opt("containers", StoreLists),
              s \in Opt("system_info", {SysNew, [timestamp |-> "2025-01-02T03:00:00"]})}

\* the parsed previous snapshot when it is an object, for the iteration orders
stored_object(output_dir) ==
    LET v == get_previous_config(output_dir).value
    IN  IF v.shape = "object" THEN v.value ELSE Empty

InitStore ==
    /\ Start
    /\ docker = <<>>
    /\ old = Empty
    /\ files \in OutputDirs
    /\ \/ op = "get_previous_config" /\ new = Empty
       \/ op = "create_change_log" /\ new \in StoreNewConfigs

\* a call of get_previous_config(output_dir)
GetPreviousConfig ==
    /\ op = "get_previous_config" /\ pc = "call"
    /\ ret' = get_previous_config(files).value
    /\ warned' = get_previous_config(files).warned
    /\ raised' = ""
    /\ pc' = "return"
    /\ UNCHANGED <<op, old, new, changes, container_changes, system_changes, log_lines, files>>
    /\ UNCHANGED guardian_vars
    /\ UNCHANGED gui_vars

\* a call of create_change_log(output_dir, new_config) that leaves new_config
\* holding new_config_after
CreateChangeLogCall(new_config_after) ==
    /\ op = "create_change_log" /\ pc = "call"
    /\ \E timestamp \in Clock :
       \E h \in HashOrders(NamesOf(stored_object(files)) \cup NamesOf(new),
                            ItemsOfConfig(stored_object(files)) \cup ItemsOfConfig(new)) :
           LET result == create_change_log(files, new, timestamp, h)
           IN  /\ ret' = result.ret
               /\ raised' = result.raised
               /\ files' = result.files
               /\ warned' = result.warned
    /\ pc' = "return"
    /\ new' = new_config_after
    /\ UNCHANGED <<op, old, changes, container_changes, system_changes, log_lines>>
    /\ UNCHANGED guardian_vars
    /\ UNCHANGED gui_vars

CreateChangeLog_setdefault == CreateChangeLogCall(new @@ [containers |-> <<>>])

\* new_config is only read, with .get
CreateChangeLog == CreateChangeLogCall(new)

NextStore == GetPreviousConfig \/ CreateChangeLog

SpecStore == InitStore /\ [][NextStore]_vars

\* every call of the module
InitAll == InitEnv \/ InitSys \/ InitStore

NextAll == CompareSingleContainer \/ GenerateChangeLog \/ GetPreviousConfig \/ CreateChangeLog

SpecAll == InitAll /\ [][NextAll]_vars

----------------------------------------------------------------------------
(* get_containers, generate_compose (src/src/unraid_config_guardian.py) *)

\* Where the code looks inside a str (split, lower, `in`, replace) the str is
\* the sequence of its characters: the entries of Config.Env, the keys and
\* values of environment, the container names.

MaxEnv == 2             \* longest Env list of a container

MASKED == <<"*", "*", "*", "M", "A", "S", "K", "E", "D", "*", "*", "*">>

UpperCase == <<"A", "B", "C", "D", "E", "F", "G", "H", "I", "J", "K", "L", "M",
               "N", "O", "P", "Q", "R", "S", "T", "U", "V", "W", "X", "Y", "Z">>
LowerCase == <<"a", "b", "c", "d", "e", "f", "g", "h", "i", "j", "k", "l", "m",
               "n", "o", "p", "q", "r", "s", "t", "u", "v", "w", "x", "y", "z">>

\* str.lower()
lower(s) ==
    [i \in DOMAIN s |->
        IF \E k \in DOMAIN UpperCase : UpperCase[k] = s[i]
        THEN LowerCase[CHOOSE k \in DOMAIN UpperCase : UpperCase[k] = s[i]]
        ELSE s[i]]

\* word in s
contains(s, word) ==
    \E i \in 1..(Len(s) - Len(word) + 1) : SubSeq(s, i, i + Len(word) - 1) = word

\* ["password", "key", "token", "secret"]
sensitive_words ==
    << <<"p", "a", "s", "s", "w", "o", "r", "d">>, <<"k", "e", "y">>,
       <<"t", "o", "k", "e", "n">>, <<"s", "e", "c", "r", "e", "t">> >>

is_sensitive_exact_case(key) ==
    \E w \in DOMAIN sensitive_words : contains(key, sensitive_words[w])

\* any(word in key.lower() for word in [...])
is_sensitive(key) ==
    \E w \in DOMAIN sensitive_words : contains(lower(key), sensitive_words[w])

\* "=" in env_var
has_equals(env_var) == \E i \in DOMAIN env_var : env_var[i] = "="

\* env_var.split("=", 1)
split_once(env_var) ==
    LET at == CHOOSE i \in DOMAIN env_var :
                  env_var[i] = "=" /\ \A j \in 1..(i - 1) : env_var[j] # "="
    IN  <<SubSeq(env_var, 1, at - 1), SubSeq(env_var, at + 1, Len(env_var))>>

\* the loop over env_vars: info["environment"][key] = value, a later entry
\* replacing an earlier one of the same key
RECURSIVE environment_of(_)
environment_of(env_vars) ==
    IF env_vars = <<>> THEN Empty
    ELSE LET env_var == env_vars[Len(env_vars)]
             before == environment_of(SubSeq(env_vars, 1, Len(env_vars) - 1))
         IN  IF has_equals(env_var)
             THEN LET key == split_once(env_var)[1]
                      value == split_once(env_var)[2]
                  IN  (key :> (IF is_sensitive(key) THEN MASKED ELSE value)) @@ before
             ELSE before

\* image_name: the first tag, else Config.Image, else "unknown"
image_name(container) ==
    IF container.tags # <<>> THEN container.tags[1]
    ELSE IF "Image" \in DOMAIN container.Config THEN container.Config.Image
    ELSE "unknown"

\* the ports loop: one "host_port:container_port" per port with host bindings
RECURSIVE ports_of(_)
ports_of(port_items) ==
    IF port_items = <<>> THEN <<>>
    ELSE LET container_port == Head(port_items)[1]
             host_bindings == Head(port_items)[2]
         IN  (IF host_bindings # <<>>
              THEN << <<host_bindings[1], ":", container_port>> >> ELSE <<>>)
             \o ports_of(Tail(port_items))

\* the volumes loop: one "source:destination" per bind mount
RECURSIVE volumes_of(_)
volumes_of(mounts) ==
    IF mounts = <<>> THEN <<>>
    ELSE (IF Get(Head(mounts), "Type", "") = "bind"
          THEN << <<Get(Head(mounts), "Source", "unknown"), ":",
                    Get(Head(mounts), "Destination", "unknown")>> >>
          ELSE <<>>)
         \o volumes_of(Tail(mounts))

\* the record get_containers builds for one container
container_info(container) ==
    [name |-> container.name,
     image |-> image_name(container),
     status |-> container.status,
     ports |-> ports_of(container.Ports),
     volumes |-> volumes_of(container.Mounts),
     environment |-> environment_of(Get(container.Config, "Env", <<>>))]

\* get_containers(), the daemon answering with the containers listed
get_containers(listed) == [i \in DOMAIN listed |-> container_info(listed[i])]

\* container["name"].replace("_", "-")
service_name(name) == [i \in DOMAIN name |-> IF name[i] = "_" THEN "-" ELSE name[i]]

\* clean_env: the variables whose value is not the mask
clean_env(environment) ==
    [k \in {k \in DOMAIN environment : environment[k] # MASKED} |-> environment[k]]

\* the service of one container
service_of(container) ==
    [image |-> container.image, container_name |-> container.name,
     restart |-> "unless-stopped"]
    @@ (IF container.ports # <<>> THEN [ports |-> container.ports] ELSE Empty)
    @@ (IF container.volumes # <<>> THEN [volumes |-> container.volumes] ELSE Empty)
    @@ (IF DOMAIN clean_env(container.environment) # {}
        THEN [environment |-> clean_env(container.environment)] ELSE Empty)

\* the loop compose["services"][service_name] = service
RECURSIVE services_of(_)
services_of(container_list) ==
    IF container_list = <<>> THEN Empty
    ELSE LET container == container_list[Len(container_list)]
         IN  (service_name(container.name) :> service_of(container))
             @@ services_of(SubSeq(container_list, 1, Len(container_list) - 1))

generate_compose(container_list) ==
    [version |-> "3.8", services |-> services_of(container_list)]

\* entries of Config.Env: TZ=a, TZ=b, Key=a, Key=b, xTOKEN=a=b, SECRET,
\* PASSWORD=a, secret=b
EnvEntries ==
    { <<"T", "Z", "=", "a">>, <<"T", "Z", "=", "b">>,
      <<"K", "e", "y", "=", "a">>, <<"K", "e", "y", "=", "b">>,
      <<"x", "T", "O", "K", "E", "N", "=", "a", "=", "b">>,
      <<"S", "E", "C", "R", "E", "T">>,
      <<"P", "A", "S", "S", "W", "O", "R", "D", "=", "a">>,
      <<"s", "e", "c", "r", "e", "t", "=", "b">> }

\* one container whose Env varies
EnvContainers ==
    {[name |-> <<"d", "b">>, tags |-> <<"postgres:16">>, status |-> "running",
      Ports |-> << <<"5432/tcp", <<"5432">>>> >>,
      Mounts |-> << [Type |-> "bind", Source |-> "/mnt/db", Destination |-> "/data"] >>,
      Config |-> [Env |-> e]] : e \in Lists(EnvEntries, MaxEnv)}

\* containers that vary in name, image source, ports and mounts: my_app,
\* my-app, db
NamedContainers ==
    {[name |-> n, tags |-> t, status |-> "running", Ports |-> p, Mounts |-> m,
      Config |-> [Image |-> "nginx:1", Env |-> << <<"T", "Z", "=", "a">>, <<"K", "e", "y", "=", "a">> >>]] :
        n \in {<<"m", "y", "_", "a", "p", "p">>, <<"m", "y", "-", "a", "p", "p">>, <<"d", "b">>},
        t \in {<<>>, <<"nginx:2">>},
        p \in {<<>>, << <<"80/tcp", <<"8080">>>>, <<"81/tcp", <<>>>> >>},
        m \in {<<>>, << [Type |-> "volume", Source |-> "v"] >>, << [Type |-> "bind", Source |-> "/mnt/a"] >>}}

\* what the daemon lists: container names are unique on a daemon
DockerStates ==
    {<<c>> : c \in EnvContainers}
    \cup {l \in Lists(NamedContainers, 2) :
              \A i, j \in DOMAIN l : i # j => l[i].name # l[j].name}

InitCompose ==
    /\ Start
    /\ files = Empty
    /\ old = Empty /\ new = Empty
    /\ op = "get_containers"
    /\ docker \in DockerStates

\* a call of get_containers(), followed in main by generate_compose
GetContainers ==
    /\ op = "get_containers" /\ pc = "call"
    /\ containers_' = get_containers(docker)
    /\ op' = "generate_compose"
    /\ UNCHANGED <<old, new, pc, changes, container_changes, system_changes, log_lines>>
    /\ UNCHANGED store_vars
    /\ UNCHANGED <<docker, compose, run>>
    /\ UNCHANGED gui_vars

\* a call of generate_compose(containers)
GenerateCompose ==
    /\ op = "generate_compose" /\ pc = "call"
    /\ compose' = generate_compose(containers_)
    /\ pc' = "return"
    /\ UNCHANGED <<op, old, new, changes, container_changes, system_changes, log_lines>>
    /\ UNCHANGED store_vars
    /\ UNCHANGED <<docker, containers_, run>>
    /\ UNCHANGED gui_vars

NextCompose == GetContainers \/ GenerateCompose

SpecCompose == InitCompose /\ [][NextCompose]_vars

----------------------------------------------------------------------------
(* Backup runs on one output directory: main (unraid_config_guardian.py)   *)
(* and run_backup (web_gui.py)                                             *)

MaxRuns == 3            \* runs made on the directory

\* container lists as get_containers returns them
RunRecord(name, image) ==
    [name |-> name, image |-> image, status |-> "running", ports |-> <<"80:8080">>,
     volumes |-> <<>>, environment |-> [TZ |-> "UTC"]]

RunLists ==
    { <<RunRecord("app", "a:1")>>,
      <<RunRecord("app", "a:2"), RunRecord("db", "a:1")>> }

\* datetime.now() in the n-th run, as text: the clock moves on between runs
run_time(n) == ToString(20250100 + n)

\* get_system_info() in the n-th run
system_info_of(n) ==
    [timestamp |-> run_time(n), hostname |-> "tower", guardian_version |-> "1.0.0",
     unraid_version |-> "6.12.4"]

\* json.dumps(config, indent=2) as json.load reads it back: a dict of str
\* keys whose values are str, list and dict comes back equal
json_dumps(config) == [state |-> "json", doc |-> Obj(config)]

\* the docker-compose.yml text: two comment lines and yaml.dump(compose)
compose_text(system_info, container_list) ==
    [state |-> "text",
     doc |-> << <<"# Generated by Config Guardian">>, <<"# ", system_info.timestamp>>,
                <<"services: ", ToString(Len(container_list))>> >>]

\* create_restore_script(system_info)
restore_text(system_info) ==
    [state |-> "text",
     doc |-> << <<"# Generated: ", system_info.timestamp>>,
                <<"# Server: ", system_info.hostname>> >>]

\* create_readme(system_info, len(containers))
readme_text(system_info, count) ==
    [state |-> "text",
     doc |-> << <<"**Server:** ", system_info.hostname>>,
                <<"**Containers:** ", ToString(count)>> >>]

\* the dict `files` of main and run_backup, in insertion order
output_files(config) ==
    << <<ConfigFile, json_dumps(config)>>,
       <<"docker-compose.yml", compose_text(config.system_info, config.containers)>>,
       <<"restore.sh", restore_text(config.system_info)>>,
       <<"README.md", readme_text(config.system_info, Len(config.containers))>> >>

\* What can go wrong in a run: nothing; the collection of containers and
\* system information; the write of the k-th file, which raises either before
\* the file is opened or after open(..., "w") truncated it; a step after the
\* four writes (chmod, templates zip).
Faults ==
    {[at |-> "none"], [at |-> "collect"], [at |-> "late"]}
    \cup {[at |-> "write", file |-> k, truncated |-> t] : k \in {1, 2}, t \in BOOLEAN}

\* the loop `for filename, content in files.items(): write_text(content)`
RECURSIVE write_all(_, _)
write_all(output_dir, items) ==
    IF items = <<>> THEN output_dir
    ELSE write_all((Head(items)[1] :> Head(items)[2]) @@ output_dir, Tail(items))

\* the directory the loop leaves under a fault
written(output_dir, items, fault) ==
    IF fault.at # "write" THEN write_all(output_dir, items)
    ELSE LET done == write_all(output_dir, SubSeq(items, 1, fault.file - 1))
         IN  IF fault.truncated
             THEN (items[fault.file][1] :> [state |-> "invalid"]) @@ done
             ELSE done

main_run_write_first(output_dir, config, timestamp, h, fault) ==
    LET after == written(output_dir, output_files(config), fault)
        result == create_change_log(after, config, timestamp, h)
    IN  [files |-> result.files, change_log |-> result.ret,
         raised |-> result.raised # "" \/ fault.at # "none"]

\* main from `config = {...}` on: create_change_log, then the writes
main_run(output_dir, config, timestamp, h, fault) ==
    LET result == create_change_log(output_dir, config, timestamp, h)
    IN  IF result.raised # ""
        THEN [files |-> result.files, change_log |-> PyNone, raised |-> TRUE]
        ELSE [files |-> written(result.files, output_files(config), fault),
              change_log |-> result.ret, raised |-> fault.at # "none"]

\* the directories the runs start on: fresh, a snapshot that does not parse,
\* a snapshot that is a JSON array
RunDirs ==
    {Empty, ConfigFile :> [state |-> "invalid"],
     ConfigFile :> [state |-> "json", doc |-> [shape |-> "array", value |-> <<1>>]]}

InitRuns ==
    /\ Start
    /\ docker = <<>>
    /\ old = Empty /\ new = Empty
    /\ op = "backup"
    /\ files \in RunDirs

\* whether a report is the baseline report
is_baseline(change_log) ==
    change_log.shape = "text" /\ change_log.value[1] = <<"# Unraid Config Guardian - Change Log">>

\* one run of main()
Main ==
    /\ op = "backup" /\ run.n < MaxRuns
    /\ \E fault \in Faults, container_list \in RunLists :
          LET n == run.n + 1
              config == [system_info |-> system_info_of(n), containers |-> container_list]
          IN  IF fault.at = "collect"
              THEN /\ files' = files
                   /\ run' = [n |-> n, by |-> "main", outcome |-> "failed", config |-> Empty,
                              change_log |-> PyNone, recovered |-> run.recovered]
              ELSE \E h \in HashOrders(NamesOf(stored_object(files)) \cup NamesOf(config),
                                       ItemsOfConfig(stored_object(files))
                                           \cup ItemsOfConfig(config)) :
                       LET result == main_run(files, config, run_time(n), h, fault)
                       IN  /\ files' = result.files
                           /\ run' = [n |-> n, by |-> "main",
                                      outcome |-> IF result.raised THEN "failed" ELSE "ok",
                                      config |-> config,
                                      change_log |-> result.change_log,
                                      recovered |-> \/ run.recovered
                                                    \/ /\ ~result.raised
                                                       /\ is_baseline(result.change_log)]
    /\ UNCHANGED <<op, old, new, pc, changes, container_changes, system_changes, log_lines>>
    /\ UNCHANGED <<ret, raised, warned>>
    /\ UNCHANGED <<docker, containers_, compose>>
    /\ UNCHANGED gui_vars

\* one run of web_gui.run_backup, from its first to its last update of
\* background_status; the function has no await, so it runs to its end
RunBackup ==
    /\ op = "backup" /\ run.n < MaxRuns
    /\ \E fault \in Faults \ {[at |-> "collect"]}, container_list \in RunLists :
          LET n == run.n + 1
              config == [system_info |-> system_info_of(n), containers |-> container_list,
                         templates |-> <<>>]
          IN  /\ files' = written(files, output_files(config), fault)
              /\ run' = [n |-> n, by |-> "run_backup",
                         outcome |-> IF fault.at = "none" THEN "ok" ELSE "failed",
                         config |-> config, change_log |-> PyNone, recovered |-> FALSE]
              /\ background_status' =
                     IF fault.at = "none"
                     THEN [background_status EXCEPT
                              !.running = FALSE, !.progress = 100,
                              !.message = "Backup completed! Generated 4 files.",
                              !.last_run = run_time(n), !.last_error = "None"]
                     ELSE [background_status EXCEPT
                              !.running = FALSE, !.progress = 0,
                              !.message = "Backup failed", !.last_error = "OSError"]
    /\ UNCHANGED <<op, old, new, pc, changes, container_changes, system_changes, log_lines>>
    /\ UNCHANGED <<ret, raised, warned>>
    /\ UNCHANGED <<docker, containers_, compose>>
    /\ UNCHANGED <<tasks, response>>

NextRuns == Main \/ RunBackup

SpecRuns == InitRuns /\ [][NextRuns]_vars

----------------------------------------------------------------------------
(* The dashboard: start_backup and the background task it schedules        *)
(* (web_gui.py: run_backup; web_gui_dev.py: run_backup_mock)               *)

MaxTasks == 2           \* start requests accepted

Apps == {"web_gui", "web_gui_dev"}

\* the values of "progress" a task sets inside its try block, in order;
\* run_backup sets 95 only when templates were found
progress_steps(app) ==
    IF app = "web_gui" THEN <<25, 50, 75, 80, 90, 95>> ELSE <<25, 40, 60, 80, 90>>

\* the values of "message" set with them
progress_messages(app) ==
    IF app = "web_gui"
    THEN <<"Collecting container information...", "Collecting system information...",
           "Generating docker-compose...", "Collecting XML templates...",
           "Writing backup files...", "Creating templates zip...">>
    ELSE <<"Collecting container information...", "Collecting system information...",
           "Collecting XML templates...", "Generating docker-compose...",
           "Writing backup files...">>

\* the message of the last update of a task that succeeded
completed_message(app) ==
    IF app = "web_gui" THEN "Backup completed! Generated 4 files."
    ELSE "Mock backup completed! Generated 5 files."

\* the index of the update "Writing backup files..."
writing_step == 5

\* the task function add_task is given
task_function(app) == IF app = "web_gui" THEN "run_backup" ELSE "run_backup_mock"

\* the configuration a task writes; run_backup_mock writes the mock data
\* without the "templates" key
task_config(app, n, container_list) ==
    IF app = "web_gui"
    THEN [system_info |-> system_info_of(n), containers |-> container_list,
          templates |-> <<>>]
    ELSE [system_info |-> system_info_of(0), containers |-> <<RunRecord("plex", "plex:1")>>]

\* run_backup has no await: once it began, nothing else runs on the event
\* loop until it returns.  run_backup_mock awaits asyncio.sleep(1) before
\* each update, where requests and other tasks run.
loop_free ==
    op = "web_gui_dev" \/ \A i \in DOMAIN tasks : tasks[i].pc # "executing"

InitGui ==
    /\ Start
    /\ docker = <<>>
    /\ old = Empty /\ new = Empty
    /\ op \in Apps
    /\ files = Empty

\* POST /api/backup/start: the handler.  add_task only schedules the task;
\* the framework runs it after the response has been sent.
StartBackup ==
    /\ op \in Apps /\ loop_free
    /\ IF background_status.running
       THEN /\ response' = 409
            /\ tasks' = tasks
       ELSE /\ Len(tasks) < MaxTasks
            /\ response' = 200
            /\ tasks' = Append(tasks, [pc |-> "scheduled", step |-> 0])
    /\ UNCHANGED <<op, old, new, pc, changes, container_changes, system_changes, log_lines>>
    /\ UNCHANGED store_vars
    /\ UNCHANGED guardian_vars
    /\ UNCHANGED background_status

\* a scheduled task starts: the update before the try block
TaskBegin(i) ==
    /\ op \in Apps /\ loop_free
    /\ tasks[i].pc = "scheduled"
    /\ tasks' = [tasks EXCEPT ![i].pc = "executing"]
    /\ background_status' =
           [background_status EXCEPT !.running = TRUE, !.progress = 0,
                                     !.message = "Starting backup...",
                                     !.last_error = "None"]
    /\ UNCHANGED <<op, old, new, pc, changes, container_changes, system_changes, log_lines>>
    /\ UNCHANGED store_vars
    /\ UNCHANGED guardian_vars
    /\ UNCHANGED response

\* the task's next update of "progress"; run_backup writes the files before
\* its update to 95
TaskStep(i) ==
    /\ op \in Apps
    /\ tasks[i].pc = "executing"
    /\ tasks[i].step < Len(progress_steps(op))
    /\ tasks' = [tasks EXCEPT ![i].step = @ + 1]
    /\ background_status' =
           [background_status EXCEPT !.progress = progress_steps(op)[tasks[i].step + 1],
                                     !.message = progress_messages(op)[tasks[i].step + 1]]
    /\ IF tasks[i].step = writing_step
       THEN \E container_list \in RunLists :
               files' = write_all(files, output_files(task_config(op, run.n + 1,
                                                                  container_list)))
       ELSE files' = files
    /\ UNCHANGED <<op, old, new, pc, changes, container_changes, system_changes, log_lines>>
    /\ UNCHANGED <<ret, raised, warned>>
    /\ UNCHANGED guardian_vars
    /\ UNCHANGED response

\* the task's last update after the files are written
TaskFinish(i) ==
    /\ op \in Apps
    /\ tasks[i].pc = "executing"
    /\ tasks[i].step >= writing_step
    /\ \E container_list \in RunLists :
          LET n == run.n + 1
              config == task_config(op, n, container_list)
          IN  /\ files' = IF tasks[i].step = writing_step
                          THEN write_all(files, output_files(config))
                          ELSE files
              /\ run' = [n |-> n, by |-> task_function(op), outcome |-> "ok",
                         config |-> config, change_log |-> PyNone, recovered |-> FALSE]
              /\ background_status' =
                     [background_status EXCEPT
                         !.running = FALSE, !.progress = 100,
                         !.message = completed_message(op),
                         !.last_run = run_time(n)]
    /\ tasks' = [tasks EXCEPT ![i].pc = "done"]
    /\ UNCHANGED <<op, old, new, pc, changes, container_changes, system_changes, log_lines>>
    /\ UNCHANGED <<ret, raised, warned>>
    /\ UNCHANGED <<docker, containers_, compose>>
    /\ UNCHANGED response

\* an exception inside the try block: the update of the except clause
TaskFail(i) ==
    /\ op \in Apps
    /\ tasks[i].pc = "executing"
    /\ op = "web_gui" \/ tasks[i].step = writing_step
    /\ \E fault \in Faults \ {[at |-> "none"], [at |-> "collect"]},
          container_list \in RunLists :
          LET n == run.n + 1
              config == task_config(op, n, container_list)
          IN  /\ files' = IF tasks[i].step = writing_step
                          THEN written(files, output_files(config), fault)
                          ELSE files
              /\ run' = [n |-> n, by |-> task_function(op), outcome |-> "failed",
                         config |-> config, change_log |-> PyNone, recovered |-> FALSE]
    /\ background_status' =
           [background_status EXCEPT !.running = FALSE, !.progress = 0,
                                     !.message = "Backup failed",
                                     !.last_error = "OSError"]
    /\ tasks' = [tasks EXCEPT ![i].pc = "done"]
    /\ UNCHANGED <<op, old, new, pc, changes, container_changes, system_changes, log_lines>>
    /\ UNCHANGED <<ret, raised, warned>>
    /\ UNCHANGED <<docker, containers_, compose>>
    /\ UNCHANGED response

NextGui ==
    \/ StartBackup
    \/ \E i \in DOMAIN tasks : TaskBegin(i)
    \/ \E i \in DOMAIN tasks : TaskStep(i)
    \/ \E i \in DOMAIN tasks : TaskFinish(i)
    \/ \E i \in DOMAIN tasks : TaskFail(i)

SpecGui == InitGui /\ [][NextGui]_vars

----------------------------------------------------------------------------
(* What the claims speak of *)

SingleReturned == op = "compare_single_container" /\ pc = "return"
LogReturned == op = "generate_change_log" /\ pc = "return"

OldContainers == Get(old, "containers", Empty)
NewContainers == Get(new, "containers", Empty)

\* the identity keys of the two snapshots
OldKeys == {(IF "name" \in DOMAIN c THEN c.name ELSE "unknown") : c \in Range(OldContainers)}
NewKeys == {(IF "name" \in DOMAIN c THEN c.name ELSE "unknown") : c \in Range(NewContainers)}

Contains(lines, line) == \E i \in DOMAIN lines : lines[i] = line

\* the names on the lines of an added or removed list, and on the "~ name:"
\* lines of a modified list
LineNames(lines) == {lines[i][2] : i \in DOMAIN lines}
HeaderLines(lines) == {i \in DOMAIN lines : lines[i][1] = "~ "}
HeaderNames(lines) == {lines[i][2] : i \in HeaderLines(lines)}

\* the change descriptions compare_single_container gives for a name of both
\* snapshots (under some iteration order)
ChangesOf(name) ==
    LET o == by_name(OldContainers)[name]
        n == by_name(NewContainers)[name]
        h == CHOOSE x \in HashOrders({}, ItemsOf(o) \cup ItemsOf(n)) : TRUE
    IN  compare_single_container(o, n, h)

\* the lines the names S take in a modified list: a header and the changes each
RECURSIVE LinesOfNames(_)
LinesOfNames(S) ==
    IF S = {} THEN 0
    ELSE LET x == CHOOSE y \in S : TRUE
         IN  1 + Len(ChangesOf(x)) + LinesOfNames(S \ {x})

----------------------------------------------------------------------------
\* C1: comparing a configuration with an identical copy of itself yields empty
\* added, removed and modified lists, no system change, and a report holding
\* both fixed "no changes" notices.
C1_Idempotence ==
    (LogReturned /\ old = new) =>
        /\ container_changes.added = <<>>
        /\ container_changes.removed = <<>>
        /\ container_changes.modified = <<>>
        /\ system_changes = <<>>
        /\ Contains(log_lines, <<"**No container changes detected**">>)
        /\ Contains(log_lines, <<"**No system changes detected**">>)

\* a snapshot with containers (one of them without image) and a system_info
\* with disks was compared with itself
C1_Witness ==
    /\ LogReturned /\ old = new
    /\ Len(OldContainers) = MaxContainers
    /\ \E i \in DOMAIN OldContainers : "image" \notin DOMAIN OldContainers[i]
    /\ "system_info" \in DOMAIN old /\ "disks" \in DOMAIN old.system_info

\* C2: a name is reported added exactly when only the new list has it, removed
\* exactly when only the old list has it, and is a candidate for modified
\* only when both have it; each name is reported at most once and in one class.
C2_Classification ==
    LogReturned =>
        LET cc == container_changes IN
        /\ \A i \in DOMAIN cc.added : cc.added[i][1] = "+ "
        /\ \A i \in DOMAIN cc.removed : cc.removed[i][1] = "- "
        /\ LineNames(cc.added) = NewKeys \ OldKeys
        /\ LineNames(cc.removed) = OldKeys \ NewKeys
        /\ HeaderNames(cc.modified) \subseteq (OldKeys \cap NewKeys)
        /\ Len(cc.added) = Cardinality(LineNames(cc.added))
        /\ Len(cc.removed) = Cardinality(LineNames(cc.removed))
        /\ Cardinality(HeaderLines(cc.modified)) = Cardinality(HeaderNames(cc.modified))

\* one name was added, one removed and one modified in the same comparison
C2_Witness ==
    /\ LogReturned
    /\ container_changes.added # <<>>
    /\ container_changes.removed # <<>>
    /\ container_changes.modified # <<>>

\* C3: a name of both snapshots is under modified exactly when
\* compare_single_container returns a change for it, and the modified list
\* holds nothing but, for each such name, its header and its changes.
C3_ModifiedIffChanged ==
    LogReturned =>
        LET m == container_changes.modified
        IN  /\ HeaderNames(m) = {name \in OldKeys \cap NewKeys : ChangesOf(name) # <<>>}
            /\ \A i \in HeaderLines(m) :
                   \A j \in DOMAIN ChangesOf(m[i][2]) :
                       /\ i + j \in DOMAIN m
                       /\ m[i + j] = <<"    ">> \o ChangesOf(m[i][2])[j]
            /\ Len(m) = LinesOfNames(HeaderNames(m))

\* of two names in both snapshots, one changed and the other did not
C3_Witness ==
    /\ LogReturned
    /\ \E a, b \in OldKeys \cap NewKeys : ChangesOf(a) # <<>> /\ ChangesOf(b) = <<>>

\* the place of a change description in the fixed order, by the text it starts with
Rank(line) ==
    CASE line[1] = "Image" -> 1
      [] line[1] = "Status" -> 2
      [] line[1] = "Restart Policy" -> 3
      [] line[1] = "Removed ports: " -> 4
      [] line[1] = "Added ports: " -> 5
      [] line[1] = "Removed volumes: " -> 6
      [] line[1] = "Added volumes: " -> 7
      [] line[1] = "Environment variables: " -> 8
      [] OTHER -> 0

\* C4: the change descriptions of compare_single_container come in the order
\* Image, Status, Restart Policy, Removed ports, Added ports, Removed volumes,
\* Added volumes, Environment variables, whatever subset is emitted.
C4_FieldOrder ==
    SingleReturned =>
        /\ \A i \in DOMAIN changes : Rank(changes[i]) >= 1
        /\ \A i, j \in DOMAIN changes : i < j => Rank(changes[i]) < Rank(changes[j])

\* all eight descriptions were emitted for one pair of records
C4_Witness == SingleReturned /\ Len(changes) = 8

\* the elements a "Removed"/"Added" line lists: <<label, e1, ", ", e2, ...>>
Listed(line) == {line[i] : i \in {k \in DOMAIN line : k % 2 = 0}}
LinesLabelled(label) == {i \in DOMAIN changes : changes[i][1] = label}

\* the line of `label` is emitted exactly when `diff` is non-empty, once, and
\* lists exactly the elements of `diff`, each once
ListsExactly(label, diff) ==
    /\ Cardinality(LinesLabelled(label)) = (IF diff = {} THEN 0 ELSE 1)
    /\ \A i \in LinesLabelled(label) :
           /\ Listed(changes[i]) = diff
           /\ Len(changes[i]) = 2 * Cardinality(diff)
           /\ \A k \in DOMAIN changes[i] : (k % 2 = 1 /\ k > 1) => changes[i][k] = ", "

\* C5: for ports and for volumes, compare_single_container emits the Removed
\* line exactly when old-new (as sets) is non-empty and lists exactly old-new,
\* the Added line exactly when new-old is non-empty and lists exactly new-old;
\* so neither when the lists are equal as sets.
C5_SetDifference ==
    SingleReturned =>
        LET op_ == Range(IF "ports" \in DOMAIN old THEN old.ports ELSE <<>>)
            np == Range(IF "ports" \in DOMAIN new THEN new.ports ELSE <<>>)
            ov == Range(IF "volumes" \in DOMAIN old THEN old.volumes ELSE <<>>)
            nv == Range(IF "volumes" \in DOMAIN new THEN new.volumes ELSE <<>>)
        IN  /\ ListsExactly("Removed ports: ", op_ \ np)
            /\ ListsExactly("Added ports: ", np \ op_)
            /\ ListsExactly("Removed volumes: ", ov \ nv)
            /\ ListsExactly("Added volumes: ", nv \ ov)

\* both a Removed and an Added ports line were emitted, the old list holding
\* one port twice
C5_Witness ==
    /\ SingleReturned
    /\ LinesLabelled("Removed ports: ") # {}
    /\ LinesLabelled("Added ports: ") # {}
    /\ "ports" \in DOMAIN old
    /\ Len(old.ports) > Cardinality(Range(old.ports))

\* the number of environment variables of a record
EnvCount(c) == IF "environment" \in DOMAIN c THEN Cardinality(DOMAIN c.environment) ELSE 0

\* the records that differ from c at most in the names and values of the
\* environment, the number of variables being the same
EnvVariants(c) ==
    LET rest == [k \in DOMAIN c \ {"environment"} |-> c[k]]
    IN  {v \in {rest @@ e : e \in Opt("environment", Envs)} : EnvCount(v) = EnvCount(c)}

RECURSIVE ListEnvVariants(_)
ListEnvVariants(containers) ==
    IF containers = <<>> THEN {<<>>}
    ELSE {<<c>> \o rest : c \in EnvVariants(Head(containers)),
                          rest \in ListEnvVariants(Tail(containers))}

\* the same for every container of a snapshot
ConfigEnvVariants(config) ==
    IF "containers" \in DOMAIN config
    THEN {[config EXCEPT !.containers = l] : l \in ListEnvVariants(config.containers)}
    ELSE {config}

\* the text pieces of a list of lines
Pieces(lines) == UNION {Range(lines[i]) : i \in DOMAIN lines}

\* the "Environment variables" lines of a report
EnvLines(lines) ==
    {i \in DOMAIN lines :
        /\ Len(lines[i]) >= 2
        /\ lines[i][1] = "    "
        /\ lines[i][2] = "Environment variables: "}

\* C6: the output depends on the environments only through the numbers of
\* variables: inputs that differ only in variable names or values (equal
\* counts on each side) have the same output; one "Environment variables"
\* line with the two counts is emitted per container exactly when the counts
\* differ; no variable name or value is a piece of the output.
C6_EnvironmentPrivacy ==
    /\ SingleReturned =>
        /\ \A o2 \in EnvVariants(old), n2 \in EnvVariants(new) :
               \E h \in HashOrders({}, ItemsOf(old) \cup ItemsOf(new)) :
                   compare_single_container(o2, n2, h) = changes
        /\ Cardinality(LinesLabelled("Environment variables: "))
               = (IF EnvCount(old) # EnvCount(new) THEN 1 ELSE 0)
        /\ \A i \in LinesLabelled("Environment variables: ") :
               changes[i] = <<"Environment variables: ", ToString(EnvCount(old)), " -> ",
                              ToString(EnvCount(new))>>
        /\ Pieces(changes) \cap (EnvKeys \cup EnvValues) = {}
    /\ LogReturned =>
        /\ \A o2 \in ConfigEnvVariants(old), n2 \in ConfigEnvVariants(new) :
               \E h \in HashOrders(OldKeys \cup NewKeys,
                                    ItemsOfConfig(old) \cup ItemsOfConfig(new)) :
                   generate_change_log(o2, n2, log_lines[2][2], h) = log_lines
        /\ Cardinality(EnvLines(log_lines))
               = Cardinality({name \in OldKeys \cap NewKeys :
                                EnvCount(by_name(OldContainers)[name])
                                    # EnvCount(by_name(NewContainers)[name])})
        /\ Pieces(log_lines) \cap (EnvKeys \cup EnvValues) = {}

\* a report was made for a container whose environment changed in names and
\* values but not in size
C6_Witness ==
    /\ LogReturned
    /\ Len(OldContainers) = 1 /\ Len(NewContainers) = 1
    /\ "environment" \in DOMAIN OldContainers[1] /\ "environment" \in DOMAIN NewContainers[1]
    /\ EnvCount(OldContainers[1]) = 1 /\ EnvCount(NewContainers[1]) = 1
    /\ DOMAIN OldContainers[1].environment # DOMAIN NewContainers[1].environment
    /\ container_changes.modified = <<>>

\* the place of a container name in ascending (Python str) order
NameRank(name) ==
    CASE name = "app" -> 1
      [] name = "db" -> 2
      [] name = "unknown" -> 3
      [] name = "web" -> 4
      [] OTHER -> 0

Ascending(names) ==
    \A i, j \in DOMAIN names : i < j => NameRank(names[i]) < NameRank(names[j])

\* the names of a list of lines, in the order of the lines
NamesInOrder(lines) == [i \in DOMAIN lines |-> lines[i][2]]

\* C7: the added, the removed and the modified entries of compare_containers
\* are each in ascending order of the container name.
C7_ResultOrdered ==
    LogReturned =>
        /\ Ascending(NamesInOrder(container_changes.added))
        /\ Ascending(NamesInOrder(container_changes.removed))
        /\ Ascending(NamesInOrder(SelectSeq(container_changes.modified,
                                            LAMBDA line : line[1] = "~ ")))

\* every reordering of a list
ListPerms(seq) == {[i \in DOMAIN seq |-> seq[p[i]]] : p \in Orderings(DOMAIN seq)}

\* a record with its ports and volumes lists reordered
RecordPerms(c) ==
    {[k \in DOMAIN c |-> IF k = "ports" THEN pp ELSE IF k = "volumes" THEN vv ELSE c[k]] :
        pp \in ListPerms(Get(c, "ports", Empty)), vv \in ListPerms(Get(c, "volumes", Empty))}

RECURSIVE EachRecordPermuted(_)
EachRecordPermuted(containers) ==
    IF containers = <<>> THEN {<<>>}
    ELSE {<<c>> \o rest : c \in RecordPerms(Head(containers)),
                          rest \in EachRecordPermuted(Tail(containers))}

\* a snapshot with its containers list, and the ports and volumes lists of
\* each container, reordered
ConfigPerms(config) ==
    IF "containers" \in DOMAIN config
    THEN {[config EXCEPT !.containers = l] :
            l \in UNION {EachRecordPermuted(q) : q \in ListPerms(config.containers)}}
    ELSE {config}

\* a report without its "Generated:" line
Body(lines) == [i \in 1..(Len(lines) - 1) |-> IF i < 2 THEN lines[i] ELSE lines[i + 1]]

\* C8: every run of generate_change_log on the two snapshots, or on any
\* reordering of their containers, ports and volumes lists, yields the same
\* report body.
C8_Deterministic ==
    LogReturned =>
        \A o2 \in ConfigPerms(old), n2 \in ConfigPerms(new) :
            \A timestamp \in Clock :
                \A h \in HashOrders(OldKeys \cup NewKeys,
                                     ItemsOfConfig(old) \cup ItemsOfConfig(new)) :
                    Body(generate_change_log(o2, n2, timestamp, h)) = Body(log_lines)

\* the names compare_containers has to report as modified
ModifiedKeys == {name \in OldKeys \cap NewKeys : ChangesOf(name) # <<>>}

\* the "<N> container changes detected" lines of the report
TotalLines == {i \in DOMAIN log_lines :
                /\ Len(log_lines[i]) = 3
                /\ log_lines[i][1] = "**"
                /\ log_lines[i][3] = " container changes detected**"}

\* C9: the N of the "<N> container changes detected" line is the number of
\* added plus removed plus modified containers, a modified container counting
\* once.
C9_SummaryTotal ==
    LogReturned =>
        \A i \in TotalLines :
            log_lines[i][2] = ToString(Cardinality(NewKeys \ OldKeys)
                                       + Cardinality(OldKeys \ NewKeys)
                                       + Cardinality(ModifiedKeys))

\* the places of a fixed line in the report
Places(line) == {i \in DOMAIN log_lines : log_lines[i] = line}

\* C10: the "No container changes detected" notice is in the report exactly
\* when no container was added, removed or modified; otherwise the report has
\* the total line and then the subsections New, Removed, Modified, in this
\* order, each exactly when its list is non-empty; notice and subsections
\* never occur together.
C10_SummaryShape ==
    LogReturned =>
        LET notice == Places(<<"**No container changes detected**">>)
            new_ == Places(<<"### New Containers">>)
            removed == Places(<<"### Removed Containers">>)
            modified == Places(<<"### Modified Containers">>)
            none == (NewKeys \ OldKeys) \cup (OldKeys \ NewKeys) \cup ModifiedKeys = {}
        IN  /\ (notice # {}) <=> none
            /\ Cardinality(notice) <= 1 /\ Cardinality(new_) <= 1
            /\ Cardinality(removed) <= 1 /\ Cardinality(modified) <= 1
            /\ (TotalLines # {}) <=> ~none
            /\ Cardinality(TotalLines) <= 1
            /\ (new_ # {}) <=> (NewKeys \ OldKeys # {})
            /\ (removed # {}) <=> (OldKeys \ NewKeys # {})
            /\ (modified # {}) <=> (ModifiedKeys # {})
            /\ \A t \in TotalLines, i \in new_ \cup removed \cup modified : t < i
            /\ \A i \in new_, j \in removed \cup modified : i < j
            /\ \A i \in removed, j \in modified : i < j
            /\ notice # {} => new_ \cup removed \cup modified = {}

\* a report with all three subsections
C10_Witness ==
    /\ LogReturned
    /\ Places(<<"### New Containers">>) # {}
    /\ Places(<<"### Removed Containers">>) # {}
    /\ Places(<<"### Modified Containers">>) # {}

----------------------------------------------------------------------------
(* C20 *)

\* the (name, image) pairs of a list of "+" or "-" lines
NameImagePairs(lines) == {<<lines[i][2], lines[i][4]>> : i \in DOMAIN lines}

\* C20: the (name, image) pairs compare_containers(A, B) reports as added are
\* the pairs compare_containers(B, A) reports as removed, and the pairs it
\* reports as removed are the pairs the reverse comparison reports as added,
\* whatever the iteration orders of the reverse comparison.
C20_AddRemoveSymmetry ==
    LogReturned =>
        \A h \in HashOrders(NamesOf(old) \cup NamesOf(new),
                             ItemsOfConfig(old) \cup ItemsOfConfig(new)) :
            LET reverse == compare_containers(NewContainers, OldContainers, h)
            IN  /\ NameImagePairs(container_changes.added) = NameImagePairs(reverse.removed)
                /\ NameImagePairs(container_changes.removed) = NameImagePairs(reverse.added)

\* a comparison that added one name and removed another while a third name
\* stayed
C20_Witness ==
    /\ LogReturned
    /\ container_changes.added # <<>>
    /\ container_changes.removed # <<>>
    /\ OldKeys \cap NewKeys # {}
    /\ NameImagePairs(container_changes.added) # NameImagePairs(container_changes.removed)

----------------------------------------------------------------------------
(* C11, C12 *)

OldSystem == Get(old, "system_info", Empty)
NewSystem == Get(new, "system_info", Empty)

SystemHeading == <<"## System Changes">>
SystemNotice == <<"**No system changes detected**">>

\* C11: every report is, in this order, the header (title, "Generated:" line,
\* "Previous backup:" line with the old timestamp or "Unknown"), the container
\* summary, exactly one "System Changes" section and the footer; the section
\* holds one line per change compare_system_info returned, or the notice when
\* it returned none, never both.
C11_SectionOrder ==
    LogReturned =>
        LET L == log_lines
            n == Len(L)
            m == Len(system_changes)
            headings == {i \in DOMAIN L : L[i] = SystemHeading}
            notices == {i \in DOMAIN L : L[i] = SystemNotice}
            summaries == {i \in DOMAIN L : L[i] = <<"## Summary">>}
            totals == {i \in DOMAIN L :
                          \/ L[i] = NoContainerChanges[1]
                          \/ Len(L[i]) = 3 /\ L[i][3] = " container changes detected**"}
            subsections == {i \in DOMAIN L :
                               L[i] \in {<<"### New Containers">>, <<"### Removed Containers">>,
                                         <<"### Modified Containers">>}}
        IN  /\ L[1] = <<"# Unraid Configuration Changes">>
            /\ Len(L[2]) = 2 /\ L[2][1] = "Generated: " /\ L[2][2] \in Clock
            /\ L[3] = <<"Previous backup: ",
                         IF "timestamp" \in DOMAIN OldSystem
                         THEN OldSystem.timestamp ELSE "Unknown">>
            /\ summaries = {5}
            /\ totals = {7}
            /\ Cardinality(headings) = 1
            /\ \A k \in headings :
                   /\ k > 7
                   /\ \A i \in subsections : i > 7 /\ i < k
                   /\ IF m > 0
                      THEN /\ \A i \in 1..m : L[k + 1 + i] = <<"[system]  ">> \o system_changes[i]
                           /\ n = k + 1 + m + 1 + Len(Footer)
                           /\ notices = {}
                      ELSE /\ notices = {k + 2}
                           /\ n = k + 3 + Len(Footer)
            /\ SubSeq(L, n - Len(Footer) + 1, n) = Footer

\* a report with container subsections and several host changes, and the
\* previous timestamp unknown
C11_Witness ==
    /\ LogReturned
    /\ Len(system_changes) >= 2
    /\ container_changes.added # <<>>
    /\ "timestamp" \notin DOMAIN OldSystem
    /\ Contains(log_lines, SystemHeading)

\* the lines of system_changes for one display name
SystemLinesOf(display_name) ==
    {i \in DOMAIN system_changes : system_changes[i][1] = display_name}

\* the value a field is compared by: "N/A" when the field is absent
Shown(system, field) == IF field \in DOMAIN system THEN system[field] ELSE "N/A"

Informational == {"timestamp", "guardian_version"}

\* the two records carry the same keys with the same values, the
\* informational ones apart
SameApartFromInformational ==
    /\ DOMAIN OldSystem \ Informational = DOMAIN NewSystem \ Informational
    /\ \A k \in DOMAIN OldSystem \ Informational : OldSystem[k] = NewSystem[k]

\* C12: records that differ only in timestamp and guardian_version give no
\* change; a difference of hostname, and one of unraid_version, gives exactly
\* one line "<Field>: <old> -> <new>", with "N/A" for an absent field.
C12_InformationalIgnored ==
    LogReturned =>
        /\ SameApartFromInformational => system_changes = <<>>
        /\ \A f \in {<<"hostname", "Hostname">>, <<"unraid_version", "Unraid Version">>} :
               LET o == Shown(OldSystem, f[1])
                   n == Shown(NewSystem, f[1])
               IN  IF o # n
                   THEN /\ Cardinality(SystemLinesOf(f[2])) = 1
                        /\ \A i \in SystemLinesOf(f[2]) :
                               system_changes[i] = <<f[2], ": ", o, " -> ", n>>
                   ELSE SystemLinesOf(f[2]) = {}
        /\ \A i \in DOMAIN system_changes :
               system_changes[i][1] \notin {"Timestamp", "Guardian Version"}

\* timestamp and guardian_version differ, hostname appears and unraid_version
\* changes: two lines, one of them from "N/A"
C12_Witness ==
    /\ LogReturned
    /\ "timestamp" \in DOMAIN OldSystem /\ "timestamp" \notin DOMAIN NewSystem
    /\ "guardian_version" \notin DOMAIN OldSystem /\ "guardian_version" \in DOMAIN NewSystem
    /\ "hostname" \notin DOMAIN OldSystem /\ "hostname" \in DOMAIN NewSystem
    /\ Shown(OldSystem, "unraid_version") = "6.12.4"
    /\ Shown(NewSystem, "unraid_version") = "7.0.0"
    /\ Len(system_changes) = 2
    /\ Contains(system_changes, <<"Hostname", ": ", "N/A", " -> ", NewSystem.hostname>>)

----------------------------------------------------------------------------
(* C13 .. C16 *)

LoadReturned == op = "get_previous_config" /\ pc = "return"
CreateReturned == op = "create_change_log" /\ pc = "return"

\* the state of unraid-config.json in the output directory
Stored == IF ConfigFile \in DOMAIN files THEN files[ConfigFile] ELSE [state |-> "missing"]

\* C13: get_previous_config returns None without a warning when
\* unraid-config.json does not exist, None after a warning when the file
\* cannot be read or parsed, the parsed document otherwise, and raises in none
\* of the three cases.
C13_FailSoftLoad ==
    LoadReturned =>
        /\ raised = ""
        /\ Stored.state = "missing" => ret = PyNone /\ ~warned
        /\ Stored.state \in {"unreadable", "invalid"} => ret = PyNone /\ warned
        /\ Stored.state = "json" => ret = Stored.doc /\ ~warned

\* a load of a file that does not parse, answered with None and a warning
C13_Witness ==
    /\ LoadReturned
    /\ Stored.state = "invalid"
    /\ ret = PyNone
    /\ warned

\* the reports generate_change_log can return for a previous and the current
\* snapshot
ComparisonReports(previous) ==
    {generate_change_log(previous, new, timestamp, h) :
        timestamp \in Clock,
        h \in HashOrders(NamesOf(previous) \cup NamesOf(new),
                         ItemsOfConfig(previous) \cup ItemsOfConfig(new))}

BaselineReports == {first_backup_log(new, timestamp) : timestamp \in Clock}

\* C14: create_change_log returns the baseline report when the previous
\* snapshot is absent, and for every previous document that exists and parses
\* to an object, the object without containers or without any field included,
\* the report of generate_change_log(previous, current).
C14_DriverBranching ==
    CreateReturned =>
        /\ Stored.state = "missing" =>
               ret.shape = "text" /\ ret.value \in BaselineReports
        /\ (Stored.state = "json" /\ Stored.doc.shape = "object") =>
               ret.shape = "text" /\ ret.value \in ComparisonReports(Stored.doc.value)

\* C15: whatever the state of the previous snapshot document (missing,
\* unreadable, not valid JSON, valid JSON of any shape), create_change_log
\* returns a report text and does not raise.
C15_AlwaysAReport ==
    CreateReturned => raised = "" /\ ret.shape = "text" /\ ret.value # <<>>

----------------------------------------------------------------------------
(* C17 .. C19 *)

C18_NoneOnFirstRun ==
    (CreateReturned /\ raised = "") =>
        IF Stored.state = "missing"
        THEN /\ ret = PyNone
             /\ change_summary(ret) = "First backup - no changes to compare"
        ELSE /\ ret.shape = "text"
             /\ change_summary(ret) = "Change log generated - see changes.log for details"

BaselineMarker == "## Initial Backup - "

SectionHeadings ==
    {<<"### New Containers">>, <<"### Removed Containers">>, <<"### Modified Containers">>}

----------------------------------------------------------------------------
(* C27, C28 *)

\* a container record with the empty list or dict in place of every absent
\* ports, volumes and environment
Filled(c) == c @@ [ports |-> <<>>, volumes |-> <<>>, environment |-> Empty]

ScalarFields ==
    {<<"image", "Image">>, <<"status", "Status">>, <<"restart_policy", "Restart Policy">>}

SystemScalarFields ==
    {<<"unraid_version", "Unraid Version">>, <<"hostname", "Hostname">>,
     <<"kernel_version", "Kernel Version">>}

\* C27: a record that lacks fields is compared without error: a scalar field
\* absent on one side is compared and shown as "N/A", one absent on both
\* sides gives no line; absent ports and volumes count as empty and an absent
\* environment as 0 variables; the same for the scalar fields of system_info.
C27_TotalFieldAccess ==
    /\ SingleReturned =>
          /\ \A f \in ScalarFields :
                LET o == Shown(old, f[1])
                    n == Shown(new, f[1])
                IN  IF o # n
                    THEN /\ Cardinality(LinesLabelled(f[2])) = 1
                         /\ \A i \in LinesLabelled(f[2]) :
                                changes[i] = <<f[2], ": ", o, " -> ", n>>
                    ELSE LinesLabelled(f[2]) = {}
          /\ \E h \in HashOrders({}, ItemsOf(old) \cup ItemsOf(new)) :
                changes = compare_single_container(Filled(old), Filled(new), h)
    /\ LogReturned =>
          \A f \in SystemScalarFields :
              LET o == Shown(OldSystem, f[1])
                  n == Shown(NewSystem, f[1])
              IN  IF o # n
                  THEN /\ Cardinality(SystemLinesOf(f[2])) = 1
                       /\ \A i \in SystemLinesOf(f[2]) :
                              system_changes[i] = <<f[2], ": ", o, " -> ", n>>
                  ELSE SystemLinesOf(f[2]) = {}

\* image is absent from the old record only, restart_policy from both
C27_Witness ==
    /\ SingleReturned
    /\ "image" \notin DOMAIN old /\ "image" \in DOMAIN new
    /\ "restart_policy" \notin DOMAIN old \cup DOMAIN new
    /\ Contains(changes, <<"Image", ": ", "N/A", " -> ", new.image>>)
    /\ LinesLabelled("Restart Policy") = {}

\* the identity key of a record
KeyOf(c) == IF "name" \in DOMAIN c THEN c.name ELSE "unknown"

\* a containers list without the records that a later record of the same key
\* follows
LastOnly(containers) ==
    LET kept == {i \in DOMAIN containers :
                    \A j \in DOMAIN containers : j > i => KeyOf(containers[j]) # KeyOf(containers[i])}
    IN  SelectSeq([i \in DOMAIN containers |-> <<i, containers[i]>>],
                  LAMBDA p : p[1] \in kept)

\* the records of LastOnly, without their positions
LastRecords(containers) ==
    [i \in DOMAIN LastOnly(containers) |-> LastOnly(containers)[i][2]]

\* the lines of the result that report one name
LinesNaming(name) ==
    Cardinality({i \in DOMAIN container_changes.added : container_changes.added[i][2] = name})
    + Cardinality({i \in DOMAIN container_changes.removed : container_changes.removed[i][2] = name})
    + Cardinality({i \in HeaderLines(container_changes.modified) :
                      container_changes.modified[i][2] = name})

\* C28: of several records with one name (or without name, keyed "unknown")
\* only the last counts: the result is a result of the comparison of the two
\* lists with the earlier duplicates dropped, and no name is reported twice.
C28_LastWriteWins ==
    LogReturned =>
        /\ \E h \in HashOrders(NamesOf(old) \cup NamesOf(new),
                                ItemsOfConfig(old) \cup ItemsOfConfig(new)) :
               container_changes =
                   compare_containers(LastRecords(OldContainers), LastRecords(NewContainers), h)
        /\ \A name \in OldKeys \cup NewKeys : LinesNaming(name) <= 1

\* two old records named alike with different images; the new record equals
\* the first of them and differs from the last
C28_Witness ==
    /\ LogReturned
    /\ Len(OldContainers) = 2 /\ Len(NewContainers) = 1
    /\ KeyOf(OldContainers[1]) = KeyOf(OldContainers[2])
    /\ OldContainers[1] # OldContainers[2]
    /\ NewContainers[1] = OldContainers[1]
    /\ container_changes.modified # <<>>

----------------------------------------------------------------------------
(* C25, C26 *)

ComposeReturned == op = "generate_compose" /\ pc = "return"

\* an entry of Env of the form KEY=value, its key and its value
HasEquals(e) == \E i \in DOMAIN e : e[i] = "="
FirstEquals(e) == CHOOSE i \in DOMAIN e : e[i] = "=" /\ \A j \in 1..(i - 1) : e[j] # "="
KeyPart(e) == SubSeq(e, 1, FirstEquals(e) - 1)

\* the same letter, whatever the case
SameLetter(a, b) ==
    a = b \/ \E k \in DOMAIN UpperCase : {a, b} = {UpperCase[k], LowerCase[k]}

SecretWords ==
    { <<"p", "a", "s", "s", "w", "o", "r", "d">>, <<"k", "e", "y">>,
      <<"t", "o", "k", "e", "n">>, <<"s", "e", "c", "r", "e", "t">> }

\* the key contains one of the words, case-insensitively
SecretKey(key) ==
    \E w \in SecretWords : \E at \in 0..(Len(key) - Len(w)) :
        \A j \in DOMAIN w : SameLetter(key[at + j], w[j])

EnvOf(container) == Get(container.Config, "Env", <<>>)

\* two listings that differ in nothing but the values of secret variables
SameApartFromSecrets(d1, d2) ==
    /\ Len(d1) = Len(d2)
    /\ \A i \in DOMAIN d1 :
          /\ [d1[i] EXCEPT !.Config = Empty] = [d2[i] EXCEPT !.Config = Empty]
          /\ DOMAIN d1[i].Config = DOMAIN d2[i].Config
          /\ \A k \in DOMAIN d1[i].Config \ {"Env"} : d1[i].Config[k] = d2[i].Config[k]
          /\ Len(EnvOf(d1[i])) = Len(EnvOf(d2[i]))
          /\ \A j \in DOMAIN EnvOf(d1[i]) :
                LET e1 == EnvOf(d1[i])[j]
                    e2 == EnvOf(d2[i])[j]
                IN  \/ e1 = e2
                    \/ /\ HasEquals(e1) /\ HasEquals(e2)
                       /\ KeyPart(e1) = KeyPart(e2)
                       /\ SecretKey(KeyPart(e1))

\* C25: every entry KEY=value of Env whose key contains password, key, token
\* or secret, in any case, is stored as ***MASKED***; the compose output holds
\* no masked variable; and a listing that differs only in the values of such
\* variables gives the same container records and the same compose output.
C25_SecretMasking ==
    ComposeReturned =>
        /\ \A i \in DOMAIN docker : \A j \in DOMAIN EnvOf(docker[i]) :
               LET e == EnvOf(docker[i])[j]
               IN  (HasEquals(e) /\ SecretKey(KeyPart(e))) =>
                       /\ KeyPart(e) \in DOMAIN containers_[i].environment
                       /\ containers_[i].environment[KeyPart(e)] = MASKED
        /\ \A s \in DOMAIN compose.services :
               "environment" \in DOMAIN compose.services[s] =>
                   \A k \in DOMAIN compose.services[s].environment :
                       /\ ~SecretKey(k)
                       /\ compose.services[s].environment[k] # MASKED
        /\ \A d \in DockerStates :
               SameApartFromSecrets(docker, d) =>
                   /\ get_containers(d) = containers_
                   /\ generate_compose(get_containers(d)) = compose

\* a container with TZ=a and Key=a: Key is masked in the record and left out
\* of the service, TZ is kept
C25_Witness ==
    /\ ComposeReturned
    /\ Len(docker) = 1
    /\ EnvOf(docker[1]) = << <<"T", "Z", "=", "a">>, <<"K", "e", "y", "=", "a">> >>
    /\ containers_[1].environment[<<"K", "e", "y">>] = MASKED
    /\ \A s \in DOMAIN compose.services :
           compose.services[s].environment = (<<"T", "Z">> :> <<"a">>)

\* the name with every "_" replaced by "-"
Dashed(name) == [i \in DOMAIN name |-> IF name[i] = "_" THEN "-" ELSE name[i]]

\* C26: generate_compose returns version 3.8 and, for each container of the
\* list, a service keyed by the name with "_" replaced by "-" that carries
\* that container's image and name, restart unless-stopped, and ports and
\* volumes exactly when the container's lists are non-empty; there are as
\* many services as containers.
C26_ComposeServices ==
    ComposeReturned =>
        /\ compose.version = "3.8"
        /\ \A i \in DOMAIN containers_ :
               LET c == containers_[i] IN
               /\ Dashed(c.name) \in DOMAIN compose.services
               /\ LET service == compose.services[Dashed(c.name)] IN
                  /\ service.image = c.image
                  /\ service.container_name = c.name
                  /\ service.restart = "unless-stopped"
                  /\ ("ports" \in DOMAIN service) <=> (c.ports # <<>>)
                  /\ ("volumes" \in DOMAIN service) <=> (c.volumes # <<>>)
        /\ Cardinality(DOMAIN compose.services) = Len(containers_)

----------------------------------------------------------------------------
(* Claims about sequences of backup runs (SpecRuns)                        *)

\* the reports generate_change_log can return for a pair of snapshots
RunReports(previous, current, timestamp) ==
    {generate_change_log(previous, current, timestamp, h) :
        h \in HashOrders(NamesOf(previous) \cup NamesOf(current),
                         ItemsOfConfig(previous) \cup ItemsOfConfig(current))}

\* a step that is one run of main / of run_backup
MainStep == run'.n = run.n + 1 /\ run'.by = "main"
RunBackupStep == run'.n = run.n + 1 /\ run'.by = "run_backup"

\* the content of unraid-config.json, "missing" when there is no such file
ConfigContent(output_dir) ==
    IF ConfigFile \in DOMAIN output_dir THEN output_dir[ConfigFile] ELSE [state |-> "missing"]

\* C21: read-before-overwrite across runs.  When a successful run of main
\* follows a successful run of main, its report is a comparison of the
\* snapshot the earlier run persisted (as previous) with its own snapshot (as
\* current), it is not a comparison of its own snapshot with itself, and
\* afterwards unraid-config.json holds its own snapshot.
C21_ReadBeforeOverwrite ==
    [][(MainStep /\ run'.outcome = "ok" /\ run.by = "main" /\ run.outcome = "ok")
          => /\ ConfigContent(files) = json_dumps(run.config)
             /\ run'.change_log.shape = "text"
             /\ run'.change_log.value
                    \in RunReports(run.config, run'.config, run_time(run'.n))
             /\ run'.change_log.value
                    \notin RunReports(run'.config, run'.config, run_time(run'.n))
             /\ files'[ChangesFile].doc = run'.change_log.value
             /\ ConfigContent(files') = json_dumps(run'.config)]_vars

\* the second of two successful runs of main reported the container "db" as added
C21_Witness ==
    /\ run.n = 2 /\ run.by = "main" /\ run.outcome = "ok"
    /\ run.change_log.shape = "text" /\ ~is_baseline(run.change_log)
    /\ \E i \in DOMAIN run.change_log.value :
          /\ run.change_log.value[i][1] = "+ "
          /\ run.change_log.value[i][2] = "db"
    /\ ConfigContent(files) = json_dumps(run.config)

\* C22: persist only on success.  A run of main that fails, at whatever
\* step, leaves unraid-config.json with the content it had before the run.
C22_PersistOnlyOnSuccess ==
    [][(MainStep /\ run'.outcome = "failed")
          => ConfigContent(files') = ConfigContent(files)]_vars

\* C23: recovery to a clean baseline.  Once a run of main that found the
\* previous snapshot missing or corrupt has completed successfully, and only
\* runs of main follow, no run produces the baseline report again.
C23_NoSecondBaseline ==
    [][(MainStep /\ run.recovered /\ run'.change_log.shape = "text")
          => ~is_baseline(run'.change_log)]_vars

\* C24: every run that overwrites unraid-config.json first generates the
\* change report.  After a successful run, of main or of run_backup,
\* changes.log holds the report of the transition from the document's
\* previous content into the snapshot now stored.
C24_ReportBeforeEveryOverwrite ==
    [][((MainStep \/ RunBackupStep) /\ run'.outcome = "ok")
          => /\ ConfigContent(files') = json_dumps(run'.config)
             /\ ChangesFile \in DOMAIN files'
             /\ LET previous == get_previous_config(files).value
                    report == files'[ChangesFile].doc
                IN  IF previous.shape = "object" /\ truthy(previous)
                    THEN report \in RunReports(previous.value, run'.config,
                                                      run_time(run'.n))
                    ELSE report = first_backup_log(run'.config, run_time(run'.n))]_vars

----------------------------------------------------------------------------
(* Claims about the dashboard (SpecGui)                                    *)

\* the tasks scheduled or executing
Unfinished == {i \in DOMAIN tasks : tasks[i].pc # "done"}

\* C29: at most one dashboard backup at a time.  Two run_backup (or
\* run_backup_mock) tasks are never both scheduled or executing at once.
C29_AtMostOneBackup == Cardinality(Unfinished) <= 1

\* the two shapes in which a task leaves background_status
SuccessShape(before, after) ==
    /\ ~after.running /\ after.progress = 100
    /\ after.last_run # "None" /\ after.last_error = "None"

FailureShape(before, after) ==
    /\ ~after.running /\ after.progress = 0 /\ after.message = "Backup failed"
    /\ after.last_error # "None" /\ after.last_run = before.last_run

\* C30: backup status lifecycle.  While a task executes running is True and
\* progress does not decrease; progress = 100 never coexists with running =
\* True; a task that ends leaves background_status in the success shape or in
\* the failure shape.
C30_StatusLifecycle ==
    [][/\ \A i \in DOMAIN tasks :
              tasks[i].pc = "executing"
                  => /\ background_status.running
                     /\ tasks'[i].pc = "executing"
                            => /\ background_status'.running
                               /\ background_status'.progress >= background_status.progress
                     /\ tasks'[i].pc = "done"
                            => \/ SuccessShape(background_status, background_status')
                               \/ FailureShape(background_status, background_status')
       /\ ~(background_status'.progress = 100 /\ background_status'.running)]_vars

============================================================================
